---- MODULE Spec2Model ----
(***************************************************************************)
(* Model of the resumable downloader of psa-update: download_file and its  *)
(* filename resolver (src/src/download.rs) and the concurrent batch of     *)
(* downloads run by main (src/src/main.rs).                                *)
(***************************************************************************)
EXTENDS Integers, Sequences, FiniteSets, TLC

\* ------------------------------------------------------------------ bounds
\* Largest length, in bytes, of a local file, of a Content-Length header and
\* of a response body.
MaxLen == 2
\* Largest number of bytes one read() of the body returns (the 4096-byte
\* buffer of download.rs:102, scaled down).
MaxChunk == 1
\* Number of updates selected for the batch in main.
NumDownloads == 2
\* Largest size of the rayon worker pool.
MaxThreads == 2

Workers == 1 .. NumDownloads

\* ------------------------------------------------------- Option and Result
None == {}
Some(x) == {x}
unwrap(o) == CHOOSE x \in o : TRUE
unwrap_or(o, d) == IF o = None THEN d ELSE unwrap(o)

Ok(v) == [ok |-> TRUE, val |-> v]
ErrStr == [ok |-> FALSE, val |-> ""]
ErrOpt == [ok |-> FALSE, val |-> None]
\* An error that carries the context with_context attached to it.
Err(context) == [ok |-> FALSE, val |-> context]

\* ----------------------------------------------------------- file system
\* A file is a sequence of bytes; a byte is tagged with the download that
\* wrote it, 0 for bytes present before the program ran.  A path that does
\* not exist holds Absent.
Absent == <<-1>>
FileNames == {"a", "b"}

RECURSIVE Bytes(_, _)
Bytes(tag, n) == IF n = 0 THEN <<>> ELSE <<tag>> \o Bytes(tag, n - 1)

InitialFiles == {Absent} \cup {Bytes(0, n) : n \in 0 .. MaxLen}

\* fs::metadata(path): Ok(len) for an existing file, an error otherwise.
\* The empty path never names a file.
metadata(files, path) ==
    IF path \in FileNames /\ files[path] # Absent
    THEN [ok |-> TRUE, len |-> Len(files[path])]
    ELSE [ok |-> FALSE, len |-> 0]

\* ------------------------------------------------- the filename resolver
\* A Content-Disposition value is a sequence of symbols: words without
\* white space, and " " for white space.  Consecutive words are adjacent in
\* the header text.
IsSpace(c) == c = " "

\* The regular expression attachment; filename=(\S+) matches at position i.
MatchAt(h, i) ==
    /\ i + 3 <= Len(h)
    /\ h[i] = "attachment;"
    /\ h[i + 1] = " "
    /\ h[i + 2] = "filename="
    /\ ~IsSpace(h[i + 3])

\* The greedy run \S+ starting at position j.
RECURSIVE NonSpaceRun(_, _)
NonSpaceRun(h, j) ==
    IF j > Len(h) \/ IsSpace(h[j]) THEN ""
    ELSE h[j] \o NonSpaceRun(h, j + 1)

\* Regex::captures(..).get(1): the capture of the leftmost match.
captures(h) ==
    LET hits == {i \in 1 .. Len(h) : MatchAt(h, i)}
    IN  IF hits = {} THEN None
        ELSE LET i == CHOOSE k \in hits : \A m \in hits : k <= m
             IN  Some(NonSpaceRun(h, i + 3))

\* A symbol that is not visible ASCII: HeaderValue::to_str fails on a value
\* that holds one.
NonAscii == "\\x80"

to_str(h) ==
    IF \E i \in 1 .. Len(h) : h[i] = NonAscii THEN [ok |-> FALSE, val |-> <<>>]
    ELSE [ok |-> TRUE, val |-> h]

\* Mutant of parse_filename_from_content_disposition: a header that cannot
\* be parsed counts as no header.
parse_filename_from_content_disposition_Lenient(response) ==
    IF response.content_disposition = None THEN Ok(None)
    ELSE LET content_disposition_str == to_str(unwrap(response.content_disposition))
         IN  IF ~content_disposition_str.ok THEN Ok(None)
             ELSE Ok(captures(content_disposition_str.val))

parse_filename_from_content_disposition(response) ==
    IF response.content_disposition = None THEN Ok(None)
    ELSE LET content_disposition_str == to_str(unwrap(response.content_disposition))
         IN  IF ~content_disposition_str.ok THEN ErrOpt
             ELSE LET filename == captures(content_disposition_str.val)
                  IN  IF filename # None THEN Ok(filename) ELSE ErrOpt

\* Iterator::last over the path segments.
last(s) == IF Len(s) = 0 THEN None ELSE Some(s[Len(s)])

\* Mutant of parse_filename: the URL is looked at first.
parse_filename_UrlFirst(response) ==
    LET filename_from_header == parse_filename_from_content_disposition(response)
        filename_from_url ==
            IF response.path_segments = None THEN None
            ELSE last(unwrap(response.path_segments))
    IN  IF filename_from_url # None THEN Ok(unwrap(filename_from_url))
        ELSE IF ~filename_from_header.ok THEN ErrStr
        ELSE IF filename_from_header.val # None
        THEN Ok(unwrap(filename_from_header.val))
        ELSE ErrStr

parse_filename(response) ==
    LET filename_from_header == parse_filename_from_content_disposition(response)
    IN  IF ~filename_from_header.ok THEN ErrStr
        ELSE IF filename_from_header.val # None
        THEN Ok(unwrap(filename_from_header.val))
        ELSE LET filename_from_url ==
                     IF response.path_segments = None THEN None
                     ELSE last(unwrap(response.path_segments))
             IN  IF filename_from_url # None THEN Ok(unwrap(filename_from_url))
                 ELSE ErrStr

\* ------------------------------------------------------------- responses
\* What download_file reads of a reqwest Response: the Content-Disposition
\* header, the path segments of the resolved URL, the Accept-Ranges header,
\* the Content-Length header, and the number of body bytes the stream
\* delivers before it ends.
Response(cd, segs, ar, cl, body) ==
    [status |-> "ok", content_disposition |-> cd, path_segments |-> segs,
     accept_ranges |-> ar, content_length |-> cl, body |-> body]

Unsent == [status |-> "unsent", content_disposition |-> None,
           path_segments |-> None, accept_ranges |-> FALSE,
           content_length |-> None, body |-> 0]

\* client.get(url).send() returned an error.
SendError == [Unsent EXCEPT !.status = "error"]

AttachmentB == <<"attachment;", " ", "filename=", "b">>
MalformedB == <<"attachment;", " ", "name=", "b">>

\* Header and URL of the responses a server gives: no header and
\* /files/a, a well-formed header, a malformed header, no header and
\* /files/, and a URL without path segments.
NameSources ==
    { <<None, Some(<<"files", "a">>)>>,
      <<Some(AttachmentB), Some(<<"files", "a">>)>>,
      <<Some(MalformedB), Some(<<"files", "a">>)>>,
      <<None, Some(<<"files", "">>)>>,
      <<None, None>> }

Lengths == {None} \cup {Some(n) : n \in 0 .. MaxLen}

ProbeResponses ==
    { Response(ns[1], ns[2], ar, cl, 0) :
        ns \in NameSources, ar \in BOOLEAN, cl \in Lengths }

TransferResponses ==
    { Response(ns[1], ns[2], FALSE, cl, body) :
        ns \in NameSources, cl \in Lengths, body \in 0 .. MaxLen }

\* ------------------------------------------------------------------ state
VARIABLES
    fs,                   \* the working directory: FileNames -> file
    fs0,                  \* the working directory when the program started
    pc,                   \* where each download is
    try_to_resume,        \* the argument of download_file
    head_response,        \* the probe response
    response,             \* the transfer response
    head_filename,        \* parse_filename of the probe response
    filename,             \* parse_filename of the transfer response
    resume_position,
    head_content_length,
    total_content_length,
    requests,             \* the requests sent, in order
    metadata_calls,       \* number of fs::metadata calls
    open_mode,            \* "none", "create" or "append"
    nread,                \* body bytes read so far
    progress_bar,         \* the indicator of the download
    result,               \* the value download_file returned
    num_threads,          \* size of the rayon pool
    full,                 \* the while_some flag of the collect
    saved_error,          \* the error the collect keeps
    collection,           \* the items the collect gathered
    downloaded_updates    \* the value of the collect in main

dlvars == <<fs, pc, try_to_resume, head_response, response, head_filename,
            filename, resume_position, head_content_length,
            total_content_length, requests, metadata_calls, open_mode, nread,
            progress_bar, result>>
mainvars == <<num_threads, full, saved_error, collection, downloaded_updates>>
vars == <<fs0, dlvars, mainvars>>

NoBar == [registered |-> FALSE, len |-> 0, pos |-> 0, start |-> 0, finished |-> 0]

\* format!("bytes={}-", resume_position)
RangeHeader(k) == <<"bytes=", k, "-">>

Request(kind, range) == [kind |-> kind, range |-> range]

\* Mutant of Entry: the probe is sent whatever try_to_resume is.
Entry_AlwaysProbe(resume) == "probe"

\* Where download_file goes first (download.rs:26).
Entry(resume) == IF resume THEN "probe" ELSE "transfer"

InitDownloads(first) ==
    /\ pc = [w \in Workers |-> IF w = 1 THEN first ELSE "pending"]
    /\ head_response = [w \in Workers |-> Unsent]
    /\ response = [w \in Workers |-> Unsent]
    /\ head_filename = [w \in Workers |-> ""]
    /\ filename = [w \in Workers |-> ""]
    /\ resume_position = [w \in Workers |-> 0]
    /\ head_content_length = [w \in Workers |-> 0]
    /\ total_content_length = [w \in Workers |-> 0]
    /\ requests = [w \in Workers |-> <<>>]
    /\ metadata_calls = [w \in Workers |-> 0]
    /\ open_mode = [w \in Workers |-> "none"]
    /\ nread = [w \in Workers |-> 0]
    /\ progress_bar = [w \in Workers |-> NoBar]
    /\ result = [w \in Workers |-> None]

InitMain ==
    /\ full = FALSE
    /\ saved_error = None
    /\ collection = {}
    /\ downloaded_updates = None

\* One call of download_file, with either value of try_to_resume, in any
\* working directory.
Init ==
    /\ fs0 \in [FileNames -> InitialFiles]
    /\ fs = fs0
    /\ try_to_resume \in [Workers -> BOOLEAN]
    /\ \A w \in Workers : w # 1 => ~try_to_resume[w]
    /\ InitDownloads(Entry(try_to_resume[1]))
    /\ num_threads = 1
    /\ InitMain

\* download_file returns r.
Return(w, r) ==
    /\ result' = [result EXCEPT ![w] = Some(r)]
    /\ pc' = [pc EXCEPT ![w] = "returned"]

\* -------------------------------------------------------- download_file
Min(a, b) == IF a < b THEN a ELSE b
Max(a, b) == IF a < b THEN b ELSE a

\* Mutant of Measures: the Accept-Ranges header is not looked at.
Measures_Always(head) == TRUE

\* The local file is measured when the probe response carries Accept-Ranges
\* (download.rs:35-38).
Measures(head) == head.accept_ranges

\* resume_position after the probe (download.rs:23, 35-40).
ResumePosition(head, md) ==
    IF Measures(head) /\ md.ok THEN md.len ELSE 0

\* head_content_length after the probe (download.rs:24, 46).
HeadContentLength(head, md) ==
    IF Measures(head) /\ md.ok THEN unwrap_or(head.content_length, 0) ELSE 0

\* Mutant of AlreadyCompleted: the lengths are never compared.
AlreadyCompleted_Never(head, md) == FALSE

\* The "already completed" return (download.rs:39, 47-53).
AlreadyCompleted(head, md) ==
    /\ Measures(head)
    /\ md.ok
    /\ HeadContentLength(head, md) = ResumePosition(head, md)

\* Mutant of RangeOf: the Range header is always attached.
RangeOf_Always(position) == Some(RangeHeader(position))

\* The Range header of the transfer request (download.rs:58-65).
RangeOf(position) ==
    IF position > 0 THEN Some(RangeHeader(position)) ELSE None

\* Mutant of TotalContentLength: the length of the transfer response is
\* always shown.
TotalContentLength_Remaining(position, head_length, remaining) == remaining

\* download.rs:75-79
TotalContentLength(position, head_length, remaining) ==
    IF position > 0 THEN head_length ELSE remaining

\* Mutant of OpenMode: the target is always created.
OpenMode_AlwaysCreate(position) == "create"

\* The mode the target is opened in (download.rs:90-100).
OpenMode(position) == IF position = 0 THEN "create" ELSE "append"

\* File::create succeeds on a path that can be created; append(true).open
\* on a file that exists.
CanOpen(files, name, mode) ==
    /\ name \in FileNames
    /\ mode = "append" => files[name] # Absent

\* A byte of a hole left by a write past the end of the file.
Hole == -2

\* n bytes written by download tag through a handle: an append handle
\* writes at the end of the file, a create handle at its own cursor.
WriteBytes(content, mode, cursor, tag, n) ==
    LET at == IF mode = "append" THEN Len(content) ELSE cursor
        len == Max(Len(content), at + n)
    IN  [i \in 1 .. len |->
            IF i > at /\ i <= at + n THEN tag
            ELSE IF i <= Len(content) THEN content[i]
            ELSE Hole]

\* Mutant of ProbeSendFails: a failed probe falls back to a download from
\* offset 0.
ProbeSendFails_FallsBack(w) ==
    /\ pc[w] = "probe"
    /\ requests' = [requests EXCEPT ![w] = Append(@, Request("probe", None))]
    /\ head_response' = [head_response EXCEPT ![w] = SendError]
    /\ pc' = [pc EXCEPT ![w] = "transfer"]
    /\ UNCHANGED <<fs, fs0, try_to_resume, response, head_filename, filename,
                   resume_position, head_content_length, total_content_length,
                   metadata_calls, open_mode, nread, progress_bar, result,
                   mainvars>>

\* download.rs:29, send() fails.
ProbeSendFails(w) ==
    /\ pc[w] = "probe"
    /\ requests' = [requests EXCEPT ![w] = Append(@, Request("probe", None))]
    /\ head_response' = [head_response EXCEPT ![w] = SendError]
    /\ Return(w, Err("send"))
    /\ UNCHANGED <<fs, fs0, try_to_resume, response, head_filename, filename,
                   resume_position, head_content_length, total_content_length,
                   metadata_calls, open_mode, nread, progress_bar, mainvars>>

\* download.rs:29-56, the probe is answered by head.
ProbeResponse(w, head) ==
    LET name == parse_filename(head)
        md == metadata(fs, name.val)
    IN  /\ pc[w] = "probe"
        /\ requests' = [requests EXCEPT ![w] = Append(@, Request("probe", None))]
        /\ head_response' = [head_response EXCEPT ![w] = head]
        /\ IF ~name.ok
           THEN /\ Return(w, ErrStr)
                /\ UNCHANGED <<head_filename, metadata_calls, resume_position,
                               head_content_length>>
           ELSE /\ head_filename' = [head_filename EXCEPT ![w] = name.val]
                /\ metadata_calls' = [metadata_calls EXCEPT
                       ![w] = IF Measures(head) THEN @ + 1 ELSE @]
                /\ resume_position' = [resume_position EXCEPT
                       ![w] = ResumePosition(head, md)]
                /\ head_content_length' = [head_content_length EXCEPT
                       ![w] = HeadContentLength(head, md)]
                /\ IF AlreadyCompleted(head, md)
                   THEN Return(w, Ok(name.val))
                   ELSE /\ pc' = [pc EXCEPT ![w] = "transfer"]
                        /\ UNCHANGED result
        /\ UNCHANGED <<fs, fs0, try_to_resume, response, filename,
                       total_content_length, open_mode, nread, progress_bar,
                       mainvars>>

\* Mutant of TransferSendFails: the target is created, under the name the
\* probe gave, before the transfer request is sent.
TransferSendFails_AfterCreate(w) ==
    /\ pc[w] = "transfer"
    /\ requests' = [requests EXCEPT
           ![w] = Append(@, Request("transfer", RangeOf(resume_position[w])))]
    /\ response' = [response EXCEPT ![w] = SendError]
    /\ fs' = [f \in FileNames |->
                 IF f = head_filename[w] /\ resume_position[w] = 0
                 THEN <<>> ELSE fs[f]]
    /\ Return(w, Err("send"))
    /\ UNCHANGED <<fs0, try_to_resume, head_response, head_filename,
                   filename, resume_position, head_content_length,
                   total_content_length, metadata_calls, open_mode, nread,
                   progress_bar, mainvars>>

\* Mutant of TransferSendFails: the request is sent again after a failure.
TransferSendFails_Retries(w) ==
    /\ pc[w] = "transfer"
    /\ Len(requests[w]) < 3
    /\ requests' = [requests EXCEPT
           ![w] = Append(@, Request("transfer", RangeOf(resume_position[w])))]
    /\ response' = [response EXCEPT ![w] = SendError]
    /\ UNCHANGED <<fs, fs0, pc, try_to_resume, head_response, head_filename,
                   filename, resume_position, head_content_length,
                   total_content_length, metadata_calls, open_mode,
                   nread, progress_bar, result, mainvars>>

\* download.rs:58-68, send() fails.
TransferSendFails(w) ==
    /\ pc[w] = "transfer"
    /\ requests' = [requests EXCEPT
           ![w] = Append(@, Request("transfer", RangeOf(resume_position[w])))]
    /\ response' = [response EXCEPT ![w] = SendError]
    /\ Return(w, Err("send"))
    /\ UNCHANGED <<fs, fs0, try_to_resume, head_response, head_filename,
                   filename, resume_position, head_content_length,
                   total_content_length, metadata_calls, open_mode, nread,
                   progress_bar, mainvars>>

\* download.rs:58-88, the transfer request is answered by resp.
TransferResponse(w, resp) ==
    LET name == parse_filename(resp)
        remaining_content_length == unwrap_or(resp.content_length, 0)
        total == TotalContentLength(resume_position[w], head_content_length[w],
                                    remaining_content_length)
    IN  /\ pc[w] = "transfer"
        /\ requests' = [requests EXCEPT
               ![w] = Append(@, Request("transfer", RangeOf(resume_position[w])))]
        /\ response' = [response EXCEPT ![w] = resp]
        /\ IF ~name.ok
           THEN /\ Return(w, ErrStr)
                /\ UNCHANGED <<filename, total_content_length, progress_bar>>
           ELSE /\ filename' = [filename EXCEPT ![w] = name.val]
                /\ total_content_length' = [total_content_length EXCEPT ![w] = total]
                /\ progress_bar' = [progress_bar EXCEPT
                       ![w] = [registered |-> TRUE, len |-> total,
                               pos |-> resume_position[w],
                               start |-> resume_position[w], finished |-> 0]]
                /\ pc' = [pc EXCEPT ![w] = "open"]
                /\ UNCHANGED result
        /\ UNCHANGED <<fs, fs0, try_to_resume, head_response, head_filename,
                       resume_position, head_content_length, metadata_calls,
                       open_mode, nread, mainvars>>

\* download.rs:90-100, the target is opened.
OpenFile(w) ==
    LET mode == OpenMode(resume_position[w])
    IN  /\ pc[w] = "open"
        /\ CanOpen(fs, filename[w], mode)
        /\ open_mode' = [open_mode EXCEPT ![w] = mode]
        /\ fs' = IF mode = "create" THEN [fs EXCEPT ![filename[w]] = <<>>] ELSE fs
        /\ pc' = [pc EXCEPT ![w] = "stream"]
        /\ UNCHANGED <<fs0, try_to_resume, head_response, response,
                       head_filename, filename, resume_position,
                       head_content_length, total_content_length, requests,
                       metadata_calls, nread, progress_bar, result, mainvars>>

\* download.rs:93, 99: the open fails, for a path that cannot be opened or
\* for any other error of the file system.
OpenFails(w) ==
    /\ pc[w] = "open"
    /\ Return(w, Err("Failed to open file"))
    /\ UNCHANGED <<fs, fs0, try_to_resume, head_response, response,
                   head_filename, filename, resume_position,
                   head_content_length, total_content_length, requests,
                   metadata_calls, open_mode, nread, progress_bar, mainvars>>

\* download.rs:106-118, a read of count > 0 bytes, written to the file.
\* The BufWriter holds the bytes until it is flushed or dropped, which
\* every return of download_file does; the file is written here.
ReadChunk(w, count) ==
    /\ pc[w] = "stream"
    /\ count \in 1 .. Min(MaxChunk, response[w].body - nread[w])
    /\ progress_bar' = [progress_bar EXCEPT ![w].pos = @ + count]
    /\ fs' = [fs EXCEPT ![filename[w]] =
                 WriteBytes(@, open_mode[w], nread[w], w, count)]
    /\ nread' = [nread EXCEPT ![w] = @ + count]
    /\ UNCHANGED <<fs0, pc, try_to_resume, head_response, response,
                   head_filename, filename, resume_position,
                   head_content_length, total_content_length, requests,
                   metadata_calls, open_mode, result, mainvars>>

\* download.rs:115-118, a read of count > 0 bytes whose write fails.
WriteFails(w, count) ==
    /\ pc[w] = "stream"
    /\ count \in 1 .. Min(MaxChunk, response[w].body - nread[w])
    /\ progress_bar' = [progress_bar EXCEPT ![w].pos = @ + count]
    /\ nread' = [nread EXCEPT ![w] = @ + count]
    /\ Return(w, Err("Error writing to file"))
    /\ UNCHANGED <<fs, fs0, try_to_resume, head_response, response,
                   head_filename, filename, resume_position,
                   head_content_length, total_content_length, requests,
                   metadata_calls, open_mode, mainvars>>

\* download.rs:106-108, the read fails.
ReadFails(w) ==
    /\ pc[w] = "stream"
    /\ Return(w, Err("Error reading from response body"))
    /\ UNCHANGED <<fs, fs0, try_to_resume, head_response, response,
                   head_filename, filename, resume_position,
                   head_content_length, total_content_length, requests,
                   metadata_calls, open_mode, nread, progress_bar, mainvars>>

\* Mutant of EndOfStream: the bytes received are compared with the total.
EndOfStream_ChecksLength(w) ==
    /\ pc[w] = "stream"
    /\ nread[w] = response[w].body
    /\ IF resume_position[w] + nread[w] = total_content_length[w]
       THEN /\ progress_bar' = [progress_bar EXCEPT
                   ![w].pos = progress_bar[w].len, ![w].finished = @ + 1]
            /\ Return(w, Ok(filename[w]))
       ELSE /\ Return(w, Err("length"))
            /\ UNCHANGED progress_bar
    /\ UNCHANGED <<fs, fs0, try_to_resume, head_response, response,
                   head_filename, filename, resume_position,
                   head_content_length, total_content_length, requests,
                   metadata_calls, open_mode, nread, mainvars>>

\* download.rs:109-125, the read returns 0: flush, finish, Ok(filename).
\* ProgressBar::finish sets the position to the length.
EndOfStream(w) ==
    /\ pc[w] = "stream"
    /\ nread[w] = response[w].body
    /\ progress_bar' = [progress_bar EXCEPT
           ![w].pos = progress_bar[w].len, ![w].finished = @ + 1]
    /\ Return(w, Ok(filename[w]))
    /\ UNCHANGED <<fs, fs0, try_to_resume, head_response, response,
                   head_filename, filename, resume_position,
                   head_content_length, total_content_length, requests,
                   metadata_calls, open_mode, nread, mainvars>>

\* Mutant of FlushFails: the indicator is finished before the flush.
FlushFails_Finishes(w) ==
    /\ pc[w] = "stream"
    /\ nread[w] = response[w].body
    /\ progress_bar' = [progress_bar EXCEPT
           ![w].pos = progress_bar[w].len, ![w].finished = @ + 1]
    /\ Return(w, Err("Error flushing file"))
    /\ UNCHANGED <<fs, fs0, try_to_resume, head_response, response,
                   head_filename, filename, resume_position,
                   head_content_length, total_content_length, requests,
                   metadata_calls, open_mode, nread, mainvars>>

\* download.rs:109-122, the read returns 0 and the flush fails.
FlushFails(w) ==
    /\ pc[w] = "stream"
    /\ nread[w] = response[w].body
    /\ Return(w, Err("Error flushing file"))
    /\ UNCHANGED <<fs, fs0, try_to_resume, head_response, response,
                   head_filename, filename, resume_position,
                   head_content_length, total_content_length, requests,
                   metadata_calls, open_mode, nread, progress_bar, mainvars>>

Next ==
    \E w \in Workers :
        \/ ProbeSendFails(w)
        \/ \E head \in ProbeResponses : ProbeResponse(w, head)
        \/ TransferSendFails(w)
        \/ \E resp \in TransferResponses : TransferResponse(w, resp)
        \/ OpenFile(w)
        \/ OpenFails(w)
        \/ \E count \in 1 .. MaxChunk : ReadChunk(w, count)
        \/ \E count \in 1 .. MaxChunk : WriteFails(w, count)
        \/ ReadFails(w)
        \/ EndOfStream(w)
        \/ FlushFails(w)

Spec == Init /\ [][Next]_vars

Succeeded(w) == result[w] # None /\ unwrap(result[w]).ok
Failed(w) == result[w] # None /\ ~unwrap(result[w]).ok

\* ------------------------------------------------------------------ main
\* The downloads whose closure is running on a thread of the pool.
Running == {w \in Workers : pc[w] \in {"probe", "transfer", "open", "stream", "returned"}}

ThreadFree == Cardinality(Running) < num_threads

Collected == downloaded_updates # None

\* Length of the resource of every update of a batch.
BatchLen == 1

\* The responses of the server for update w: every probe advertises ranges
\* and the length, every transfer delivers the whole body.  Updates 1 and 2
\* have different URLs with the same last segment, so they resolve to the
\* same name; update 3 is named by a well-formed header.
BatchName(w) ==
    IF w % 3 = 1 THEN <<None, Some(<<"files", "a">>)>>
    ELSE IF w % 3 = 2 THEN <<None, Some(<<"mirror", "a">>)>>
    ELSE <<Some(AttachmentB), Some(<<"files", "a">>)>>
BatchProbeResponses(w) ==
    { Response(BatchName(w)[1], BatchName(w)[2], TRUE, Some(BatchLen), 0) }
BatchTransferResponses(w) ==
    { Response(BatchName(w)[1], BatchName(w)[2], FALSE, Some(BatchLen), BatchLen) }

\* main before the collect: the updates are selected, nothing has run and
\* the working directory is empty; the pool has between 1 and MaxThreads
\* threads.
InitBatch ==
    /\ fs0 = [f \in FileNames |-> Absent]
    /\ fs = fs0
    /\ try_to_resume = [w \in Workers |-> TRUE]
    /\ InitDownloads("pending")
    /\ num_threads \in 1 .. MaxThreads
    /\ InitMain

\* psa::download_update(&client, update, &multi_progress): the download of
\* one update, a call of download_file.
download_update(w) ==
    pc' = [pc EXCEPT ![w] = Entry(try_to_resume[w])]

\* main.rs:87-92, a thread of the pool takes an item that the collect still
\* wants (while_some is not full) and runs the closure on it.
StartDownload(w) ==
    /\ ~Collected
    /\ pc[w] = "pending"
    /\ ThreadFree
    /\ ~full
    /\ download_update(w)
    /\ UNCHANGED <<fs, fs0, try_to_resume, head_response, response,
                   head_filename, filename, resume_position,
                   head_content_length, total_content_length, requests,
                   metadata_calls, open_mode, nread, progress_bar, result,
                   mainvars>>

\* Mutant of SkipDownload: once the collect is full, downloads that are
\* running are cancelled too.
SkipDownload_Cancels(w) ==
    /\ ~Collected
    /\ pc[w] \in {"pending", "probe", "transfer", "open", "stream"}
    /\ full
    /\ pc' = [pc EXCEPT ![w] = "skipped"]
    /\ UNCHANGED <<fs, fs0, try_to_resume, head_response, response,
                   head_filename, filename, resume_position,
                   head_content_length, total_content_length, requests,
                   metadata_calls, open_mode, nread, progress_bar, result,
                   mainvars>>

\* main.rs:87-93, a thread of the pool reaches an item after an error made
\* the collect full: the closure is not run on it.
SkipDownload(w) ==
    /\ ~Collected
    /\ pc[w] = "pending"
    /\ ThreadFree
    /\ full
    /\ pc' = [pc EXCEPT ![w] = "skipped"]
    /\ UNCHANGED <<fs, fs0, try_to_resume, head_response, response,
                   head_filename, filename, resume_position,
                   head_content_length, total_content_length, requests,
                   metadata_calls, open_mode, nread, progress_bar, result,
                   mainvars>>

\* main.rs:89-93, the closure returned: collect into a Result keeps an Ok
\* item, and on an Err saves the first error and becomes full.
Consume(w) ==
    /\ pc[w] = "returned"
    /\ ~Collected
    /\ pc' = [pc EXCEPT ![w] = "consumed"]
    /\ IF Succeeded(w)
       THEN /\ collection' = collection \cup
                    {[update |-> w, filename |-> unwrap(result[w]).val]}
            /\ UNCHANGED <<full, saved_error>>
       ELSE /\ saved_error' = IF saved_error = None THEN Some(w) ELSE saved_error
            /\ full' = TRUE
            /\ UNCHANGED collection
    /\ UNCHANGED <<fs, fs0, try_to_resume, head_response, response,
                   head_filename, filename, resume_position,
                   head_content_length, total_content_length, requests,
                   metadata_calls, open_mode, nread, progress_bar, result,
                   num_threads, downloaded_updates>>

\* Mutant of Collect: the collect returns as soon as an error is saved.
Collect_FailFast ==
    /\ ~Collected
    /\ \/ saved_error # None
       \/ \A w \in Workers : pc[w] \in {"consumed", "skipped"}
    /\ downloaded_updates' =
           Some(IF saved_error # None THEN [ok |-> FALSE, val |-> {}]
                ELSE [ok |-> TRUE, val |-> collection])
    /\ UNCHANGED <<fs0, dlvars, num_threads, full, saved_error, collection>>

\* main.rs:87-98, every item was consumed or skipped: the collect returns
\* the saved error, or else the collection.
Collect ==
    /\ ~Collected
    /\ \A w \in Workers : pc[w] \in {"consumed", "skipped"}
    /\ downloaded_updates' =
           Some(IF saved_error # None THEN [ok |-> FALSE, val |-> {}]
                ELSE [ok |-> TRUE, val |-> collection])
    /\ UNCHANGED <<fs0, dlvars, num_threads, full, saved_error, collection>>

NextBatch ==
    \/ \E w \in Workers :
        \/ StartDownload(w)
        \/ SkipDownload(w)
        \/ Consume(w)
        \/ ProbeSendFails(w)
        \/ \E head \in BatchProbeResponses(w) : ProbeResponse(w, head)
        \/ TransferSendFails(w)
        \/ \E resp \in BatchTransferResponses(w) : TransferResponse(w, resp)
        \/ OpenFile(w)
        \/ OpenFails(w)
        \/ \E count \in 1 .. MaxChunk : ReadChunk(w, count)
        \/ \E count \in 1 .. MaxChunk : WriteFails(w, count)
        \/ ReadFails(w)
        \/ EndOfStream(w)
        \/ FlushFails(w)
    \/ Collect

SpecBatch == InitBatch /\ [][NextBatch]_vars

\* ------------------------------------------------- the resolver on its own
\* Longest Content-Disposition value, in symbols.
MaxHeaderLen == 5

HeaderSymbols == {"attachment;", " ", "filename=", "b", NonAscii}

RECURSIVE SeqsUpTo(_, _)
SeqsUpTo(S, n) ==
    IF n = 0 THEN {<<>>}
    ELSE LET shorter == SeqsUpTo(S, n - 1)
         IN  shorter \cup {Append(q, x) : q \in shorter, x \in S}

\* Every header value of at most MaxHeaderLen symbols, or no header; the
\* URLs https://host/files/a, https://host/files/ and
\* https://host/api/file?x=1.
ParseNames ==
    {<<cd, segs>> :
        cd \in {None} \cup {Some(h) : h \in SeqsUpTo(HeaderSymbols, MaxHeaderLen)},
        segs \in {Some(<<"files", "a">>), Some(<<"files", "">>),
                  Some(<<"api", "file">>)}}

ParseProbeResponses ==
    { Response(ns[1], ns[2], FALSE, None, 0) : ns \in ParseNames }

ParseTransferResponses ==
    { Response(ns[1], ns[2], FALSE, None, 0) : ns \in ParseNames }

\* download_file up to the first response, whose filename it resolves: the
\* probe response with try_to_resume, the transfer response without.
InitParse ==
    /\ fs0 = [f \in FileNames |-> Absent]
    /\ fs = fs0
    /\ try_to_resume \in [Workers -> BOOLEAN]
    /\ \A w \in Workers : w # 1 => ~try_to_resume[w]
    /\ InitDownloads(Entry(try_to_resume[1]))
    /\ num_threads = 1
    /\ InitMain

NextParse ==
    \E w \in Workers :
        \/ /\ pc[w] = "probe"
           /\ \E head \in ParseProbeResponses : ProbeResponse(w, head)
        \/ /\ pc[w] = "transfer"
           /\ ~try_to_resume[w]
           /\ \E resp \in ParseTransferResponses : TransferResponse(w, resp)

SpecParse == InitParse /\ [][NextParse]_vars

\* --------------------------------------------------- claims: download_file
Transfers(w) == {i \in 1 .. Len(requests[w]) : requests[w][i].kind = "transfer"}
Probes(w) == {i \in 1 .. Len(requests[w]) : requests[w][i].kind = "probe"}
ProbeAnswered(w) == head_response[w].status = "ok"
ProbeNamed(w) == ProbeAnswered(w) /\ parse_filename(head_response[w]).ok
LocalLen(w) == Len(fs0[head_filename[w]])
ServerLen(w) == unwrap(head_response[w].content_length)

\* The case of C1: a partial file of K bytes, 0 < K < L, a server that
\* accepts ranges and answers the range request with the remaining L - K
\* bytes under the same name, and a stream that ends normally.
ResumeCase(w) ==
    /\ try_to_resume[w]
    /\ ProbeNamed(w)
    /\ head_response[w].accept_ranges
    /\ head_response[w].content_length # None
    /\ metadata(fs0, head_filename[w]).ok
    /\ 0 < LocalLen(w)
    /\ LocalLen(w) < ServerLen(w)
    /\ response[w].status = "ok"
    /\ response[w].body = ServerLen(w) - LocalLen(w)
    /\ filename[w] = head_filename[w]
    /\ Succeeded(w)

\* C1: resuming a partial file of K bytes of a resource of L bytes opens the
\* target in append mode, keeps the K bytes, leaves exactly L bytes and
\* starts the progress at K; the request asks for bytes=K-.
C1_ResumePartial ==
    \A w \in Workers :
        ResumeCase(w) =>
            /\ open_mode[w] = "append"
            /\ Len(fs[filename[w]]) = ServerLen(w)
            /\ SubSeq(fs[filename[w]], 1, LocalLen(w)) = fs0[filename[w]]
            /\ progress_bar[w].start = LocalLen(w)
            /\ \A i \in Transfers(w) :
                   requests[w][i].range = Some(RangeHeader(LocalLen(w)))

C1_Witness == \E w \in Workers : ResumeCase(w) /\ LocalLen(w) = 1

\* The case of C2: the local file has the advertised length.
CompleteCase(w) ==
    /\ try_to_resume[w]
    /\ ProbeNamed(w)
    /\ head_response[w].accept_ranges
    /\ head_response[w].content_length # None
    /\ metadata(fs0, head_filename[w]).ok
    /\ LocalLen(w) = ServerLen(w)

\* C2: when the local file already has the advertised length, download_file
\* returns Ok with the probe's filename, sends no transfer request,
\* registers no indicator and leaves the file system unchanged.
C2_AlreadyComplete ==
    \A w \in Workers :
        CompleteCase(w) =>
            /\ result[w] = Some(Ok(head_filename[w]))
            /\ pc[w] = "returned"
            /\ Transfers(w) = {}
            /\ ~progress_bar[w].registered
            /\ open_mode[w] = "none"
            /\ fs = fs0

C2_Witness == \E w \in Workers : CompleteCase(w) /\ LocalLen(w) > 0

\* The case of C3: the probe response carries no Accept-Ranges.
NoRangesCase(w) ==
    /\ try_to_resume[w]
    /\ ProbeAnswered(w)
    /\ ~head_response[w].accept_ranges

\* C3: without Accept-Ranges nothing is resumed, whatever the local file:
\* the file is not measured, no request carries Range, the target is opened
\* in create mode and holds only the bytes of this transfer, from offset 0.
C3_NoRangesNoResume ==
    \A w \in Workers :
        NoRangesCase(w) =>
            /\ resume_position[w] = 0
            /\ metadata_calls[w] = 0
            /\ \A i \in 1 .. Len(requests[w]) : requests[w][i].range = None
            /\ open_mode[w] \in {"none", "create"}
            /\ pc[w] = "stream" => fs[filename[w]] = Bytes(w, nread[w])
            /\ Succeeded(w) => fs[filename[w]] = Bytes(w, response[w].body)

C3_Witness ==
    \E w \in Workers :
        /\ NoRangesCase(w)
        /\ Succeeded(w)
        /\ metadata(fs0, filename[w]).ok
        /\ Len(fs0[filename[w]]) > response[w].body
        /\ response[w].body > 0

\* The case of C4: no local file under the name of the probe (when there is
\* a probe) nor under the name of the transfer, and a stream that ends
\* normally.
FreshCase(w) ==
    /\ try_to_resume[w] => ProbeNamed(w) /\ ~metadata(fs0, head_filename[w]).ok
    /\ response[w].status = "ok"
    /\ ~metadata(fs0, filename[w]).ok
    /\ Succeeded(w)

\* C4: a fresh download of a body of L bytes, with or without resume, sends
\* no Range header, opens the target in create mode and leaves exactly the
\* L bytes of the body.
C4_FreshDownload ==
    \A w \in Workers :
        FreshCase(w) =>
            /\ open_mode[w] = "create"
            /\ \A i \in 1 .. Len(requests[w]) : requests[w][i].range = None
            /\ fs[filename[w]] = Bytes(w, response[w].body)

C4_Witness ==
    \E w \in Workers :
        FreshCase(w) /\ try_to_resume[w] /\ response[w].body = MaxLen

\* C5 as claimed: after the probe the resume offset never exceeds the total
\* length, whenever that length is known and nonzero.
C5_OffsetWithinTotal ==
    \A w \in Workers :
        /\ head_content_length[w] > 0 =>
               resume_position[w] <= head_content_length[w]
        /\ progress_bar[w].registered /\ total_content_length[w] > 0 =>
               resume_position[w] <= total_content_length[w]

\* C8: with try_to_resume = false there is no probe and no fs::metadata
\* call, the only request is the transfer, without Range, and the target is
\* opened in create mode.
C8_ResumeDisabled ==
    \A w \in Workers :
        ~try_to_resume[w] =>
            /\ Probes(w) = {}
            /\ head_response[w] = Unsent
            /\ metadata_calls[w] = 0
            /\ Len(requests[w]) <= 1
            /\ \A i \in 1 .. Len(requests[w]) : requests[w][i].range = None
            /\ open_mode[w] \in {"none", "create"}
            /\ pc[w] \in {"open", "stream", "returned"} =>
                   /\ Len(requests[w]) = 1
                   /\ requests[w][1].kind = "transfer"
            /\ pc[w] = "stream" =>
                   /\ open_mode[w] = "create"
                   /\ fs[filename[w]] = Bytes(w, nread[w])

C8_Witness ==
    \E w \in Workers :
        /\ ~try_to_resume[w]
        /\ Succeeded(w)
        /\ metadata(fs0, filename[w]).ok
        /\ Len(fs0[filename[w]]) > 0

\* The case of C9: the probe request fails, or its filename is not resolved.
ProbeFailedCase(w) ==
    /\ try_to_resume[w]
    /\ \/ head_response[w].status = "error"
       \/ ProbeAnswered(w) /\ ~parse_filename(head_response[w]).ok

\* C9: a failed probe fails the download: download_file returns an error,
\* sends no transfer request and touches no file.
C9_ProbeFailureFatal ==
    \A w \in Workers :
        ProbeFailedCase(w) =>
            /\ Failed(w)
            /\ pc[w] = "returned"
            /\ Transfers(w) = {}
            /\ open_mode[w] = "none"
            /\ fs = fs0

C9_Witness ==
    \E w \in Workers :
        ProbeFailedCase(w) /\ ProbeAnswered(w)
            /\ head_response[w].content_disposition # None

C9_WitnessSend ==
    \E w \in Workers : ProbeFailedCase(w) /\ head_response[w].status = "error"

\* C10 as claimed: the filename resolved from a response is never empty.
C10_NeverEmptyName ==
    \A w \in Workers :
        /\ ProbeNamed(w) => parse_filename(head_response[w]).val # ""
        /\ response[w].status = "ok" /\ parse_filename(response[w]).ok =>
               parse_filename(response[w]).val # ""

\* ------------------------------------------------------ claims: the batch
Started(w) == pc[w] \in {"probe", "transfer", "open", "stream", "returned", "consumed"}
InFlight(w) == pc[w] \in {"probe", "transfer", "open", "stream"}
BatchFailed == Collected /\ ~unwrap(downloaded_updates).ok

C7_BatchOutcome ==
    Collected =>
        /\ BatchFailed <=> \E w \in Workers : Failed(w)
        /\ ~BatchFailed =>
               /\ Cardinality(unwrap(downloaded_updates).val) = NumDownloads
               /\ \A w \in Workers :
                      [update |-> w, filename |-> unwrap(result[w]).val]
                          \in unwrap(downloaded_updates).val
        /\ \A w \in Workers : pc[w] \in {"consumed", "skipped"}

\* The batch failed although a download succeeded.
C7_Witness ==
    /\ BatchFailed
    /\ \E w \in Workers : Succeeded(w) /\ pc[w] = "consumed"

C7_WitnessOk == Collected /\ ~BatchFailed

\* ------------------------------------------------- claims: the resolver
\* The first response of the download and whether its filename was resolved.
FirstResponse(w) == IF try_to_resume[w] THEN head_response[w] ELSE response[w]
FirstName(w) == IF try_to_resume[w] THEN head_filename[w] ELSE filename[w]
FirstSeen(w) == FirstResponse(w).status = "ok"
FirstNamed(w) == FirstSeen(w) /\ ~Failed(w)
Header(w) == unwrap(FirstResponse(w).content_disposition)
HasHeader(w) == FirstSeen(w) /\ FirstResponse(w).content_disposition # None
UrlSegment(w) ==
    LET segs == unwrap(FirstResponse(w).path_segments)
    IN  segs[Len(segs)]

RECURSIVE Text(_)
Text(h) == IF h = <<>> THEN "" ELSE Head(h) \o Text(Tail(h))

Word(c) == c # " " /\ c # NonAscii

\* The whole value is attachment; filename=<token>.
HasShape(h) ==
    /\ Len(h) >= 4
    /\ SubSeq(h, 1, 3) = <<"attachment;", " ", "filename=">>
    /\ \A i \in 4 .. Len(h) : Word(h[i])

\* The value holds attachment; filename= followed by a character that is
\* not white space, and converts to a string.
ContainsShape(h) ==
    /\ \A i \in 1 .. Len(h) : h[i] # NonAscii
    /\ \E i \in 1 .. Len(h) - 3 :
           /\ SubSeq(h, i, i + 2) = <<"attachment;", " ", "filename=">>
           /\ h[i + 3] # " "

C12_HeaderBeforeUrl ==
    \A w \in Workers :
        /\ HasHeader(w) /\ HasShape(Header(w)) =>
               FirstNamed(w) /\ FirstName(w) = Text(SubSeq(Header(w), 4, Len(Header(w))))
        /\ FirstSeen(w) /\ ~HasHeader(w) =>
               FirstNamed(w) /\ FirstName(w) = UrlSegment(w)
        /\ HasHeader(w) /\ FirstNamed(w) =>
               \E i \in 4 .. Len(Header(w)) : \E j \in i .. Len(Header(w)) :
                   FirstName(w) = Text(SubSeq(Header(w), i, j))

\* attachment; filename=b with https://host/api/file?x=1 gives b.
C12_Witness ==
    \E w \in Workers :
        /\ HasHeader(w)
        /\ Header(w) = AttachmentB
        /\ UrlSegment(w) = "file"
        /\ FirstNamed(w)
        /\ FirstName(w) = "b"

C12_WitnessUrl ==
    \E w \in Workers :
        FirstNamed(w) /\ ~HasHeader(w) /\ FirstName(w) = "a"

\* ------------------------------------------- claims: the streaming loop
ErrorOf(w) == unwrap(result[w]).val

\* The zero-length read has come: every body byte was read.
AtEnd(w) == pc[w] = "stream" /\ nread[w] = response[w].body

\* Fewer bytes than the total shown.
Short(w) == resume_position[w] + nread[w] < total_content_length[w]

\* C13: when the read returns 0 the download flushes, finishes its
\* indicator and returns Ok(filename), also when fewer bytes than the total
\* were received; the only errors of download_file are those of the
\* requests, the filenames, the open, the read, the write and the flush.
C13_ShortReadSucceeds ==
    \A w \in Workers :
        /\ AtEnd(w) =>
               ENABLED (EndOfStream(w) /\ result'[w] = Some(Ok(filename[w]))
                            /\ progress_bar'[w].finished = 1)
        /\ Failed(w) =>
               ErrorOf(w) \in {"send", "", "Failed to open file",
                               "Error reading from response body",
                               "Error writing to file", "Error flushing file"}

C13_Witness ==
    \E w \in Workers :
        /\ Succeeded(w)
        /\ progress_bar[w].finished = 1
        /\ Short(w)
        /\ Len(fs[filename[w]]) < total_content_length[w]

\* C14: an indicator is finished at most once, and exactly when
\* download_file returned Ok after the flush; when download_file fails after
\* the registration (open, read, write, flush) the indicator is not
\* finished and stays at the position of its last update.
C14_IndicatorLifecycle ==
    \A w \in Workers :
        /\ progress_bar[w].finished <= 1
        /\ ~progress_bar[w].registered => progress_bar[w].finished = 0
        /\ progress_bar[w].registered =>
               /\ progress_bar[w].finished = 1 <=>
                      Succeeded(w) /\ result[w] = Some(Ok(filename[w]))
               /\ Failed(w) =>
                      /\ progress_bar[w].finished = 0
                      /\ progress_bar[w].pos = progress_bar[w].start + nread[w]

\* The flush fails after bytes were shown.
C14_Witness ==
    \E w \in Workers :
        /\ progress_bar[w].registered
        /\ Failed(w)
        /\ ErrorOf(w) = "Error flushing file"
        /\ progress_bar[w].pos > progress_bar[w].start

\* C15: the indicator shows the length of the probe response when the
\* transfer is resumed and the length of the transfer response when it is
\* not; during the streaming loop its position is resume_position plus the
\* bytes read.
C15_DisplayedTotal ==
    \A w \in Workers :
        progress_bar[w].registered =>
            /\ progress_bar[w].len =
                   IF resume_position[w] > 0
                   THEN unwrap_or(head_response[w].content_length, 0)
                   ELSE unwrap_or(response[w].content_length, 0)
            /\ progress_bar[w].start = resume_position[w]
            /\ pc[w] \in {"open", "stream"} =>
                   progress_bar[w].pos = resume_position[w] + nread[w]

\* A resumed transfer in its loop, whose two responses give different
\* lengths.
C15_Witness ==
    \E w \in Workers :
        /\ pc[w] = "stream"
        /\ resume_position[w] > 0
        /\ nread[w] > 0
        /\ head_response[w].content_length # response[w].content_length
        /\ progress_bar[w].len = unwrap_or(head_response[w].content_length, 0)

\* C16: at most one probe and one transfer request are sent, the probe
\* first, and no request is sent once download_file has returned.
C16_NoRetries ==
    /\ [](\A w \in Workers :
             /\ Cardinality(Probes(w)) <= 1
             /\ Cardinality(Transfers(w)) <= 1
             /\ \A i \in Probes(w) : \A j \in Transfers(w) : i < j
             /\ result[w] = None /\ pc[w] \in {"open", "stream"} =>
                    Cardinality(Transfers(w)) = 1)
    /\ [][\A w \in Workers : result[w] # None =>
             requests'[w] = requests[w] /\ result'[w] = result[w]]_vars

\* The transfer request failed after the probe.
C16_Witness ==
    \E w \in Workers :
        /\ Failed(w)
        /\ Len(requests[w]) = 2
        /\ response[w].status = "error"

\* --------------------------------------------- claims: files and targets
\* C17 as claimed: the file opened in append mode is the file the probe
\* measured, and it has the measured length when it is opened.
C17_AppendsToMeasuredFile ==
    \A w \in Workers :
        open_mode[w] = "append" =>
            /\ filename[w] = head_filename[w]
            /\ pc[w] = "stream" /\ nread[w] = 0 =>
                   Len(fs[filename[w]]) = resume_position[w]

\* The "already completed" return was taken.
Skipped(w) == Succeeded(w) /\ Transfers(w) = {}

\* C19 as claimed: the "already completed" return is taken only when the
\* probe response reported a length and the local file has that length.
C19_SkipOnlyOnKnownLength ==
    \A w \in Workers :
        Skipped(w) =>
            /\ head_response[w].content_length # None
            /\ ServerLen(w) = LocalLen(w)

\* download_file failed at a request or at a filename.
FailedBeforeOpen(w) == Failed(w) /\ ErrorOf(w) \in {"send", ""}

\* C20: a download that fails at the probe request, the probe filename, the
\* transfer request or the transfer filename has touched no file; the file
\* system changes only for a download whose transfer response gave a
\* filename.
C20_FailureBeforeOpen ==
    /\ [](\A w \in Workers :
             FailedBeforeOpen(w) => fs = fs0 /\ open_mode[w] = "none")
    /\ [][fs' # fs =>
             \E w \in Workers :
                 /\ pc[w] \in {"open", "stream"}
                 /\ response[w].status = "ok"
                 /\ parse_filename(response[w]) = Ok(filename[w])]_vars

\* The filename of the transfer response is not resolved, after a probe
\* that measured an existing file.
C20_Witness ==
    \E w \in Workers :
        /\ FailedBeforeOpen(w)
        /\ response[w].status = "ok"
        /\ resume_position[w] > 0
        /\ fs = fs0

\* The downloads that hold the file f open for writing.
Writers(f) == {w \in Workers : pc[w] = "stream" /\ filename[w] = f}

\* C18 as claimed: no two downloads have the same file open for writing at
\* the same time, and the file of a successful download holds only the
\* bytes its own download wrote.
C18_ExclusiveTargets ==
    /\ \A f \in FileNames : Cardinality(Writers(f)) <= 1
    /\ \A w \in Workers :
           Succeeded(w) /\ ~Skipped(w) =>
               \A i \in 1 .. Len(fs[filename[w]]) : fs[filename[w]][i] = w

====
